---- MODULE Spec2Model ----
(***************************************************************************)
(* Model of mwc_scraper.py: the combination orchestrator                   *)
(* (run_all_combinations), the per-combination scraper                     *)
(* (scrape_combination), the filename allocator                            *)
(* (generate_output_filename) and the master log (ledger) they write.      *)
(* Strings are sequences of one-character strings.  The browser driver is  *)
(* the environment: each of its calls either returns or raises.            *)
(***************************************************************************)
EXTENDS Integers, Sequences, FiniteSets, TLC

\* ------------------------------------------------------------------ bounds
MaxRuns == 2
MaxPages == 2
MaxPerPage == 1

\* 'Status': f'Error: {str(e)[:100]}'
MsgLimit == 100
\* lengths of the exception messages the driver raises (one short, one long)
MsgLens == {7, 130}

\* --------------------------------------------------------- input contents
\* lines of letters.txt, interests.txt, company_activities.txt
InputConfigs ==
  { << << <<"A">>, <<"A">> >>, << <<"x">> >>,           << <<"p">> >> >>,
    << << <<"A">>, <<"B">> >>, << <<"x">> >>,           << <<"p">> >> >>,
    << << <<"A">> >>,          << <<"x">>, <<"5">> >>,  << <<"p">>, <<"q">> >> >> }

VARIABLES
  pc,                     \* position of the process in run_all_combinations / scrape_combination
  run,                    \* number of the current process run
  letters, interests, company_activities,   \* the three input lists
  master_exists,          \* mwc_scraper_master_log.csv exists
  master_file,            \* its data rows, in file order
  prev_completed,         \* history: the combinations with a Completed row when this run began
  files,                  \* output files: name -> data rows (the Profile URL of each)
  terminate_signal,       \* content of terminate_signal.txt
  completed_combinations, \* list of (letter, interest, activity)
  li, ii, ai,             \* positions of the three nested for loops
  combination_count,
  output_file,            \* name allocated by run_all_combinations
  sc_output_file,         \* name allocated by scrape_combination
  total_attendees, page_num, pending, new_attendees_count,
  attendees_found,
  interest_success, activity_success,   \* what the two dropdown setters returned
  sc_raised,              \* history: the except clause of scrape_combination ran in this attempt
  err_len,                \* length of str(e) in the except clause of the orchestrator
  session,                \* "None", "Fresh" (context without login), "Authenticated"
  exhausted,              \* history: the last rung of the recovery failed in this run
  processed_urls,         \* set of profile URLs seen so far
  attendees,              \* the records (profile URLs) extracted from the current page
  pages_read,             \* history: the pages extracted in this call of scrape_combination
  filter_log,             \* history: the filters set in this call, in the order they were set
  ladder,                 \* history: rungs of the recovery run after the last Error row, with their outcome
  needs_recovery,         \* history: a driver call raised in scrape_combination and no recovery ran since
  signals,                \* history: the exit signals written by this run, in order
  abort,                  \* history: the startup failure that ended this run, or "none"
  prev_started,           \* history: (combination, output file) of the Started rows when this run began
  site_urls,              \* the profile URLs the result pages of the site can show
  interest_options,       \* the options of the interest dropdown: value -> label
  activity_options,       \* the options of the activity dropdown: value -> label
  page_size,              \* the most records the site puts on one result page
  row_labels              \* the Interest and Company Activity columns of the rows written in this call

vars == << pc, run, letters, interests, company_activities, master_exists,
           master_file, prev_completed, files, terminate_signal,
           completed_combinations, li, ii, ai, combination_count, output_file,
           sc_output_file, total_attendees, page_num, pending,
           new_attendees_count, attendees_found, interest_success,
           activity_success, sc_raised, err_len, session, exhausted,
           processed_urls, attendees, pages_read, filter_log, ladder,
           needs_recovery, signals, abort, prev_started, site_urls,
           interest_options, activity_options, page_size, row_labels >>

\* ------------------------------------------------- generate_output_filename
Digits == {"0", "1", "2", "5"}
LowerLetters == {"a", "b", "p", "q", "x"}
UpperLetters == {"A", "B", "P", "Q", "X"}

\* c.isalnum()
isalnum(c) == c \in Digits \cup LowerLetters \cup UpperLetters

\* c.lower()
lower(c) ==
  CASE c = "A" -> "a" [] c = "B" -> "b" [] c = "P" -> "p"
    [] c = "Q" -> "q" [] c = "X" -> "x" [] OTHER -> c

\* s.isdigit()
isdigit(s) == Len(s) > 0 /\ \A n \in 1..Len(s) : s[n] \in Digits

\* ''.join(c if c.isalnum() or c == ' ' else '-' for c in s.lower()).replace(' ', '-')
clean(s) ==
  [n \in 1..Len(s) |->
     LET c == lower(s[n])
         d == IF isalnum(c) \/ c = " " THEN c ELSE "-"
     IN  IF d = " " THEN "-" ELSE d]

\* s.replace('--', '-'): one left-to-right pass over non-overlapping matches
RECURSIVE replace_hyphens(_)
replace_hyphens(s) ==
  IF Len(s) < 2 THEN s
  ELSE IF s[1] = "-" /\ s[2] = "-"
       THEN <<"-">> \o replace_hyphens(SubSeq(s, 3, Len(s)))
       ELSE <<s[1]>> \o replace_hyphens(Tail(s))

has_double_hyphen(s) == \E n \in 1..(Len(s) - 1) : s[n] = "-" /\ s[n + 1] = "-"

\* while '--' in s: s = s.replace('--', '-')
RECURSIVE collapse(_)
collapse(s) == IF has_double_hyphen(s) THEN collapse(replace_hyphens(s)) ELSE s

\* base_name = "mwc_barcelona_2025_attendees"
DefaultBase == << "mwc_barcelona_2025_attendees" >>

\* the three parts: only interest and activity have the while loop
clean_name(attendee_name) == clean(attendee_name)
interest_str(interest) == collapse(clean(interest))
activity_str(company_activity) == collapse(clean(company_activity))

\* the base name: "-".join(parts), or the default when no part is given
base_name(attendee_name, interest, company_activity) ==
  LET p1 == IF Len(attendee_name) > 0 THEN << clean_name(attendee_name) >> ELSE << >>
      p2 == IF Len(interest) > 0 THEN << interest_str(interest) >> ELSE << >>
      p3 == IF Len(company_activity) > 0
            THEN << activity_str(company_activity) >> ELSE << >>
      parts == p1 \o p2 \o p3
      join[n \in 0..Len(parts)] ==
        IF n = 0 THEN << >>
        ELSE IF n = 1 THEN parts[1]
        ELSE join[n - 1] \o <<"-">> \o parts[n]
  IN  IF Len(parts) = 0 THEN DefaultBase ELSE join[Len(parts)]

\* numbering by the count of the files of the base instead of probing
probe_by_count(base, counter, existing) ==
  << base, counter + Cardinality({ f \in existing : f[1] = base }) >>

\* the probing loop: first counter >= 1 whose name does not exist
RECURSIVE probe(_, _, _)
probe(base, counter, existing) ==
  IF << base, counter >> \notin existing THEN << base, counter >>
  ELSE probe(base, counter + 1, existing)

\* a name without enumeration: always the first counter
generate_first_filename(attendee_name, interest, company_activity, existing) ==
  << base_name(attendee_name, interest, company_activity), 1 >>

generate_output_filename(attendee_name, interest, company_activity, existing) ==
  probe(base_name(attendee_name, interest, company_activity), 1, existing)

NoFile == << << >>, 0 >>

\* ------------------------------------------------------------ the ledger
\* one data row of the master log; status is "Started", "Completed" or
\* "Error", msg the length of the text after "Error: "; idx (history) holds the
\* positions of the three loops when the row was written
Row(l, i, a, f, n, s, m, x) ==
  [ letter |-> l, interest |-> i, activity |-> a, file |-> f, found |-> n,
    status |-> s, msg |-> m, idx |-> x ]

Combo(r) == << r.letter, r.interest, r.activity >>

\* str(e)[:100]
truncate(len) == IF len > MsgLimit THEN MsgLimit ELSE len

\* the rows of the ledger whose status is Completed, as (letter, interest, activity)
RECURSIVE load_completed(_)
load_completed(rows) ==
  IF rows = << >> THEN << >>
  ELSE LET r == rows[Len(rows)]
           before == load_completed(SubSeq(rows, 1, Len(rows) - 1))
       IN  IF r.status = "Completed" THEN Append(before, Combo(r)) ELSE before

InList(x, list) == \E n \in 1..Len(list) : list[n] = x

\* ------------------------------------------------- the three nested loops
\* next_iteration with the interest loop innermost
next_iteration_swapped(l, i, a) ==
  IF Len(letters) = 0 \/ Len(interests) = 0 \/ Len(company_activities) = 0
  THEN << 0, 0, 0 >>
  ELSE IF a = 0 THEN << l, i, 1 >>
  ELSE IF i < Len(interests) THEN << l, i + 1, a >>
  ELSE IF a < Len(company_activities) THEN << l, 1, a + 1 >>
  ELSE IF l < Len(letters) THEN << l + 1, 1, 1 >>
  ELSE << 0, 0, 0 >>

\* the next iteration of the nested for loops after position (l, i, a);
\* (1, 1, 0) is the position before the first one and <<0, 0, 0>> means the
\* loops are over
next_iteration(l, i, a) ==
  IF Len(letters) = 0 \/ Len(interests) = 0 \/ Len(company_activities) = 0
  THEN << 0, 0, 0 >>
  ELSE IF a < Len(company_activities) THEN << l, i, a + 1 >>
  ELSE IF i < Len(interests) THEN << l, i + 1, 1 >>
  ELSE IF l < Len(letters) THEN << l + 1, 1, 1 >>
  ELSE << 0, 0, 0 >>

letter == letters[li]
interest == interests[ii]
company_activity == company_activities[ai]
Current == << letter, interest, company_activity >>

\* ------------------------------------------------------------------ Init
\* the memory of a process that has not started yet
InitMemory ==
  /\ run = 1
  /\ \E cfg \in InputConfigs :
       /\ letters = cfg[1]
       /\ interests = cfg[2]
       /\ company_activities = cfg[3]
  /\ prev_completed = { }
  /\ files = << >>
  /\ terminate_signal = "none"
  /\ completed_combinations = << >>
  /\ li = 1 /\ ii = 1 /\ ai = 0
  /\ combination_count = 0
  /\ output_file = NoFile
  /\ sc_output_file = NoFile
  /\ total_attendees = 0
  /\ page_num = 0
  /\ pending = 0
  /\ new_attendees_count = 0
  /\ attendees_found = 0
  /\ interest_success = TRUE
  /\ activity_success = TRUE
  /\ sc_raised = FALSE
  /\ err_len = 0
  /\ session = "None"
  /\ exhausted = FALSE
  /\ processed_urls = { }
  /\ attendees = << >>
  /\ pages_read = << >>
  /\ filter_log = << >>
  /\ row_labels = << >>
  /\ ladder = << >>
  /\ needs_recovery = FALSE
  /\ signals = << >>
  /\ abort = "none"
  /\ prev_started = { }

\* a site whose dropdowns have no option with a numeric value, and whose
\* result pages hold up to MaxPerPage records
DefaultSite ==
  /\ interest_options = << >>
  /\ activity_options = << >>
  /\ page_size = MaxPerPage

\* the program is started in a directory without a master log; 'N/A' is the
\* profile URL of a record without a link, and the larger cross-products are
\* explored with one URL
Init ==
  /\ pc = "read_inputs"
  /\ master_exists = FALSE
  /\ master_file = << >>
  /\ InitMemory
  /\ site_urls = IF Len(letters) * Len(interests) * Len(company_activities) > 2
                 THEN {"u1"} ELSE {"u1", "N/A"}
  /\ DefaultSite

inputs == << letters, interests, company_activities, site_urls,
            interest_options, activity_options, page_size >>
disk == << master_exists, master_file, files, terminate_signal >>
loopvars == << li, ii, ai, combination_count, output_file >>
scvars == << sc_output_file, total_attendees, page_num, pending,
             new_attendees_count, attendees_found, interest_success,
             activity_success, sc_raised, attendees, pages_read, filter_log,
             row_labels >>

\* the locals of scrape_combination before a call
ScReset ==
  /\ sc_output_file' = NoFile
  /\ total_attendees' = 0
  /\ page_num' = 0
  /\ pending' = 0
  /\ new_attendees_count' = 0
  /\ attendees_found' = 0
  /\ interest_success' = TRUE
  /\ activity_success' = TRUE
  /\ sc_raised' = FALSE
  /\ attendees' = << >>
  /\ pages_read' = << >>
  /\ filter_log' = << >>
  /\ row_labels' = << >>

\* create_exit_flag_file(error)
create_exit_flag_file(error) ==
  /\ terminate_signal' = IF error THEN "error" ELSE "complete"
  /\ signals' = Append(signals, IF error THEN "error" ELSE "complete")

\* ----------------------------------------------- run_all_combinations: startup
\* an input file cannot be read
ReadInputsFail ==
  /\ pc = "read_inputs"
  /\ create_exit_flag_file(TRUE)
  /\ pc' = "done"
  /\ abort' = "inputs"
  /\ UNCHANGED << processed_urls, ladder, needs_recovery, prev_started,
                  run, inputs, master_exists, master_file, prev_completed, files,
                  completed_combinations, loopvars, scvars, err_len, session,
                  exhausted >>

ReadInputs ==
  /\ pc = "read_inputs"
  /\ pc' = "create_master"
  /\ UNCHANGED << processed_urls, ladder, needs_recovery, signals, abort, prev_started,
                  run, inputs, disk, prev_completed, completed_combinations,
                  loopvars, scvars, err_len, session, exhausted >>

\* open(master_file, 'w') and writeheader()
CreateMasterLog ==
  /\ pc = "create_master"
  /\ master_exists' = TRUE
  /\ master_file' = << >>
  /\ pc' = "load_seen"
  /\ UNCHANGED << processed_urls, ladder, needs_recovery, signals, abort, prev_started,
                  run, inputs, prev_completed, files, terminate_signal,
                  completed_combinations, loopvars, scvars, err_len, session,
                  exhausted >>

\* the profile URLs of the rows of a file, 'N/A' left out
urls_of(rows) == { rows[n] : n \in 1..Len(rows) } \ {"N/A"}

\* read the Profile URL column of every output file in the directory
LoadSeen ==
  /\ pc = "load_seen"
  /\ processed_urls' = UNION { urls_of(files[f]) : f \in DOMAIN files }
  /\ pc' = "load_completed"
  /\ UNCHANGED << run, inputs, disk, prev_completed, completed_combinations,
                  loopvars, scvars, err_len, session, exhausted, ladder,
                  needs_recovery, signals, abort, prev_started >>

LoadCompleted ==
  /\ pc = "load_completed"
  /\ completed_combinations' =
       IF master_exists THEN load_completed(master_file) ELSE << >>
  /\ pc' = "credentials"
  /\ UNCHANGED << processed_urls, ladder, needs_recovery, signals, abort, prev_started,
                  run, inputs, disk, prev_completed, loopvars, scvars, err_len,
                  session, exhausted >>

\* MWC_USERNAME or MWC_PASSWORD is unset or empty
CredentialsMissing ==
  /\ pc = "credentials"
  /\ create_exit_flag_file(TRUE)
  /\ pc' = "done"
  /\ abort' = "credentials"
  /\ UNCHANGED << processed_urls, ladder, needs_recovery, prev_started,
                  run, inputs, master_exists, master_file, prev_completed, files,
                  completed_combinations, loopvars, scvars, err_len, session,
                  exhausted >>

CredentialsPresent ==
  /\ pc = "credentials"
  /\ pc' = "login"
  /\ UNCHANGED << processed_urls, ladder, needs_recovery, signals, abort, prev_started,
                  run, inputs, disk, prev_completed, completed_combinations,
                  loopvars, scvars, err_len, session, exhausted >>

\* launch, new_context, new_page, login_to_mwc returned True
LoginSuccess ==
  /\ pc = "login"
  /\ session' = "Authenticated"
  /\ li' = 1 /\ ii' = 1 /\ ai' = 0
  /\ combination_count' = 0
  /\ pc' = "loop"
  /\ UNCHANGED << processed_urls, ladder, needs_recovery, signals, abort, prev_started,
                  run, inputs, disk, prev_completed, completed_combinations,
                  output_file, scvars, err_len, exhausted >>

\* a start-up that goes on to the loop although the login returned False
LoginFailed_Continues ==
  /\ pc = "login"
  /\ session' = "Fresh"
  /\ li' = 1 /\ ii' = 1 /\ ai' = 0
  /\ combination_count' = 0
  /\ pc' = "loop"
  /\ abort' = "login"
  /\ UNCHANGED << processed_urls, ladder, needs_recovery, signals, prev_started,
                  run, inputs, disk, prev_completed, completed_combinations,
                  output_file, scvars, err_len, exhausted >>

\* login_to_mwc returned False: "Failed to login. Aborting."
LoginFailed ==
  /\ pc = "login"
  /\ session' = "None"
  /\ create_exit_flag_file(TRUE)
  /\ pc' = "done"
  /\ abort' = "login"
  /\ UNCHANGED << processed_urls, ladder, needs_recovery, prev_started,
                  run, inputs, master_exists, master_file, prev_completed, files,
                  completed_combinations, loopvars, scvars, err_len, exhausted >>

\* the launch or a driver call of login_to_mwc raised: outer except clause
LoginRaises ==
  /\ pc = "login"
  /\ session' = "None"
  /\ create_exit_flag_file(TRUE)
  /\ pc' = "done"
  /\ abort' = "login_raised"
  /\ UNCHANGED << processed_urls, ladder, needs_recovery, prev_started,
                  run, inputs, master_exists, master_file, prev_completed, files,
                  completed_combinations, loopvars, scvars, err_len, exhausted >>

\* ------------------------------------------ run_all_combinations: the loops
\* "Skipping already completed combination"
SkipCompleted ==
  /\ pc = "loop"
  /\ LET nx == next_iteration(li, ii, ai) IN
       /\ nx # << 0, 0, 0 >>
       /\ InList(<< letters[nx[1]], interests[nx[2]], company_activities[nx[3]] >>,
                 completed_combinations)
       /\ li' = nx[1] /\ ii' = nx[2] /\ ai' = nx[3]
  /\ combination_count' = combination_count + 1
  /\ ladder' = << >>
  /\ needs_recovery' = FALSE
  /\ UNCHANGED << processed_urls, signals, abort, prev_started,
                  pc, run, inputs, disk, prev_completed, completed_combinations,
                  output_file, scvars, err_len, session, exhausted >>

\* allocate the output name and append the Started row
StartCombination ==
  /\ pc = "loop"
  /\ LET nx == next_iteration(li, ii, ai) IN
       /\ nx # << 0, 0, 0 >>
       /\ LET l == letters[nx[1]]
              i == interests[nx[2]]
              a == company_activities[nx[3]]
              f == generate_output_filename(l, i, a, DOMAIN files)
          IN  /\ ~ InList(<< l, i, a >>, completed_combinations)
              /\ output_file' = f
              /\ master_file' = Append(master_file,
                   Row(l, i, a, f, 0, "Started", 0, nx))
       /\ li' = nx[1] /\ ii' = nx[2] /\ ai' = nx[3]
  /\ combination_count' = combination_count + 1
  /\ pc' = "wait"
  /\ ladder' = << >>
  /\ needs_recovery' = FALSE
  /\ UNCHANGED << processed_urls, signals, abort, prev_started,
                  run, inputs, master_exists, prev_completed, files,
                  terminate_signal, completed_combinations, scvars, err_len,
                  session, exhausted >>

\* page.wait_for_timeout(2000) returned: scrape_combination is called
PreScrapeWait ==
  /\ pc = "wait"
  /\ ScReset
  /\ pc' = "sc_alloc"
  /\ UNCHANGED << processed_urls, ladder, needs_recovery, signals, abort, prev_started,
                  run, inputs, disk, prev_completed, completed_combinations,
                  loopvars, err_len, session, exhausted >>

\* page.wait_for_timeout(2000) raised
PreScrapeWaitRaises ==
  /\ pc = "wait"
  /\ err_len' \in MsgLens
  /\ pc' = "write_error"
  /\ UNCHANGED << processed_urls, ladder, needs_recovery, signals, abort, prev_started,
                  run, inputs, disk, prev_completed, completed_combinations,
                  loopvars, scvars, session, exhausted >>

\* append the Completed row, remember the combination
WriteCompleted ==
  /\ pc = "write_completed"
  /\ master_file' = Append(master_file,
       Row(letter, interest, company_activity, output_file, attendees_found,
           "Completed", 0, << li, ii, ai >>))
  /\ completed_combinations' = Append(completed_combinations, Current)
  /\ ScReset
  /\ pc' = "loop"
  /\ UNCHANGED << processed_urls, ladder, needs_recovery, signals, abort, prev_started,
                  run, inputs, master_exists, prev_completed, files,
                  terminate_signal, loopvars, err_len, session, exhausted >>

\* append the Error row
WriteError ==
  /\ pc = "write_error"
  /\ master_file' = Append(master_file,
       Row(letter, interest, company_activity, output_file, 0,
           "Error", truncate(err_len), << li, ii, ai >>))
  /\ err_len' = 0
  /\ pc' = "recover1"
  /\ ladder' = << >>
  /\ needs_recovery' = FALSE
  /\ UNCHANGED << processed_urls, signals, abort, prev_started,
                  run, inputs, master_exists, prev_completed, files,
                  terminate_signal, completed_combinations, loopvars, scvars,
                  session, exhausted >>

\* ------------------------------------------------------ the recovery ladder
\* a ladder that opens a fresh page whether or not the reload worked
Recover1_AlwaysEscalates ==
  /\ pc = "recover1"
  /\ pc' = "recover2"
  /\ \E ok \in BOOLEAN : ladder' = Append(ladder, [rung |-> 1, ok |-> ok])
  /\ UNCHANGED << processed_urls, needs_recovery, signals, abort, prev_started,
                  run, inputs, disk, prev_completed, completed_combinations,
                  loopvars, scvars, err_len, session, exhausted >>

\* page.goto(search) on the current page
Recover1 ==
  /\ pc = "recover1"
  /\ pc' \in {"loop", "recover2"}
  /\ ladder' = Append(ladder, [rung |-> 1, ok |-> (pc' = "loop")])
  /\ UNCHANGED << processed_urls, needs_recovery, signals, abort, prev_started,
                  run, inputs, disk, prev_completed, completed_combinations,
                  loopvars, scvars, err_len, session, exhausted >>

\* page.close(), context.new_page(), page.goto(search)
Recover2 ==
  /\ pc = "recover2"
  /\ pc' \in {"loop", "recover3"}
  /\ ladder' = Append(ladder, [rung |-> 2, ok |-> (pc' = "loop")])
  /\ UNCHANGED << processed_urls, needs_recovery, signals, abort, prev_started,
                  run, inputs, disk, prev_completed, completed_combinations,
                  loopvars, scvars, err_len, session, exhausted >>

\* context.close(), browser.new_context(), new_page(), login_to_mwc returned
Recover3Login ==
  /\ pc = "recover3"
  /\ \E login_success \in BOOLEAN :
       /\ session' = IF login_success THEN "Authenticated" ELSE "Fresh"
       /\ exhausted' = (exhausted \/ ~ login_success)
       /\ ladder' = Append(ladder, [rung |-> 3, ok |-> login_success])
  /\ pc' = "loop"
  /\ UNCHANGED << processed_urls, needs_recovery, signals, abort, prev_started,
                  run, inputs, disk, prev_completed, completed_combinations,
                  loopvars, scvars, err_len >>

\* one of them raised: "Fatal error recreating context", break
Recover3Raises ==
  /\ pc = "recover3"
  /\ session' \in {session, "None", "Fresh"}
  /\ exhausted' = TRUE
  /\ ai' = Len(company_activities)
  /\ pc' = "loop"
  /\ ladder' = Append(ladder, [rung |-> 3, ok |-> FALSE])
  /\ UNCHANGED << processed_urls, needs_recovery, signals, abort, prev_started,
                  run, inputs, disk, prev_completed, completed_combinations, li,
                  ii, combination_count, output_file, scvars, err_len >>

\* ------------------------------------------------------- end of the run
LoopDone ==
  /\ pc = "loop"
  /\ next_iteration(li, ii, ai) = << 0, 0, 0 >>
  /\ pc' = "finish"
  /\ ladder' = << >>
  /\ needs_recovery' = FALSE
  /\ UNCHANGED << processed_urls, signals, abort, prev_started,
                  run, inputs, disk, prev_completed, completed_combinations,
                  loopvars, scvars, err_len, session, exhausted >>

\* browser.close(), create_exit_flag_file()
Finish ==
  /\ pc = "finish"
  /\ session' = "None"
  /\ create_exit_flag_file(FALSE)
  /\ pc' = "done"
  /\ UNCHANGED << processed_urls, ladder, needs_recovery, abort, prev_started,
                  run, inputs, master_exists, master_file, prev_completed, files,
                  completed_combinations, loopvars, scvars, err_len, exhausted >>

\* browser.close() raised: outer except clause
FinishRaises ==
  /\ pc = "finish"
  /\ session' = "None"
  /\ create_exit_flag_file(TRUE)
  /\ pc' = "done"
  /\ UNCHANGED << processed_urls, ladder, needs_recovery, abort, prev_started,
                  run, inputs, master_exists, master_file, prev_completed, files,
                  completed_combinations, loopvars, scvars, err_len, exhausted >>

\* the program is started again in the same directory
StartRun ==
  /\ pc = "done"
  /\ run < MaxRuns
  /\ run' = run + 1
  /\ prev_completed' =
       { Combo(master_file[n]) : n \in { m \in 1..Len(master_file) :
                                            master_file[m].status = "Completed" } }
  /\ completed_combinations' = << >>
  /\ li' = 1 /\ ii' = 1 /\ ai' = 0
  /\ combination_count' = 0
  /\ output_file' = NoFile
  /\ ScReset
  /\ err_len' = 0
  /\ session' = "None"
  /\ exhausted' = FALSE
  /\ processed_urls' = { }
  /\ ladder' = << >>
  /\ needs_recovery' = FALSE
  /\ signals' = << >>
  /\ abort' = "none"
  /\ prev_started' =
       { << Combo(master_file[n]), master_file[n].file >> :
           n \in { m \in 1..Len(master_file) : master_file[m].status = "Started" } }
  /\ pc' = "read_inputs"
  /\ UNCHANGED << inputs, disk >>

\* ------------------------------------------------------- scrape_combination
orch == << completed_combinations, loopvars, err_len, session, exhausted,
           ladder, signals, abort, prev_started >>

\* the lists of records one result page can yield
Pages == UNION { [1..n -> site_urls] : n \in 0..page_size }

\* writer.writerow with a test of the seen set in front of it
write_row_unseen(rows, url, seen) ==
  IF url \in seen THEN rows ELSE Append(rows, url)

\* writer.writerow: the row is written whether or not the URL was seen before
write_row(rows, url, seen) == Append(rows, url)

\* a column that always holds the value of the input file
display_raw(value, options) == value

\* interest_display, company_activity_display: "N/A" for no value, the text
\* of the option with that value for a numeric value, else the value itself
display(value, options) ==
  IF Len(value) = 0 THEN << "N/A" >>
  ELSE IF isdigit(value) /\ value \in DOMAIN options THEN options[value]
  ELSE value

\* total_attendees = new_attendees_count
add_page_forgetful(total, new) == new

\* total_attendees += new_attendees_count
add_page(total, new) == total + new

\* a second allocation whose probing starts at counter 2
ScAllocate_ProbesFromTwo ==
  /\ pc = "sc_alloc"
  /\ LET f == probe(base_name(letter, interest, company_activity), 2,
                    DOMAIN files)
     IN  /\ sc_output_file' = f
         /\ files' = IF f \in DOMAIN files THEN files ELSE (f :> << >>) @@ files
  /\ total_attendees' = 0
  /\ pc' = "sc_nav"
  /\ UNCHANGED << row_labels, run, inputs, master_exists, master_file, prev_completed,
                  terminate_signal, orch, page_num, pending,
                  new_attendees_count, attendees_found, interest_success,
                  activity_success, sc_raised, attendees, pages_read,
                  filter_log, processed_urls, needs_recovery >>

\* allocate the output name again and create the file with its header
ScAllocate ==
  /\ pc = "sc_alloc"
  /\ LET f == generate_output_filename(letter, interest, company_activity,
                                       DOMAIN files)
     IN  /\ sc_output_file' = f
         /\ files' = IF f \in DOMAIN files THEN files ELSE (f :> << >>) @@ files
  /\ total_attendees' = 0
  /\ pc' = "sc_nav"
  /\ UNCHANGED << row_labels, run, inputs, master_exists, master_file, prev_completed,
                  terminate_signal, orch, page_num, pending,
                  new_attendees_count, attendees_found, interest_success,
                  activity_success, sc_raised, attendees, pages_read,
                  filter_log, processed_urls, needs_recovery >>

\* go to the search page, select the event, clear the search field
ScNavigate ==
  /\ pc = "sc_nav"
  /\ filter_log' = Append(filter_log, "event")
  /\ pc' = "sc_interest"
  /\ UNCHANGED << row_labels, run, inputs, disk, prev_completed, orch, sc_output_file,
                  total_attendees, page_num, pending, new_attendees_count,
                  attendees_found, interest_success, activity_success,
                  sc_raised, attendees, pages_read, processed_urls,
                  needs_recovery >>

\* select_interest_filter: its result is not looked at
ScInterest ==
  /\ pc = "sc_interest"
  /\ IF Len(interest) > 0
     THEN /\ interest_success' \in BOOLEAN
          /\ filter_log' = Append(filter_log, "interest")
     ELSE /\ interest_success' = interest_success
          /\ filter_log' = filter_log
  /\ pc' = "sc_activity"
  /\ UNCHANGED << row_labels, run, inputs, disk, prev_completed, orch, sc_output_file,
                  total_attendees, page_num, pending, new_attendees_count,
                  attendees_found, activity_success, sc_raised, attendees,
                  pages_read, processed_urls, needs_recovery >>

\* the activity block placed after the call of set_search_filter
ScActivity_AfterName ==
  /\ pc = "sc_activity"
  /\ activity_success' \in BOOLEAN
  /\ filter_log' = filter_log \o << "name", "activity" >>
  /\ page_num' = 1
  /\ pc' = "sc_extract"
  /\ UNCHANGED << row_labels, run, inputs, disk, prev_completed, orch, sc_output_file,
                  total_attendees, pending, new_attendees_count,
                  attendees_found, interest_success, sc_raised, attendees,
                  pages_read, processed_urls, needs_recovery >>

\* select_company_activity_filter: its result is not looked at
ScActivity ==
  /\ pc = "sc_activity"
  /\ IF Len(company_activity) > 0
     THEN /\ activity_success' \in BOOLEAN
          /\ filter_log' = Append(filter_log, "activity")
     ELSE /\ activity_success' = activity_success
          /\ filter_log' = filter_log
  /\ pc' = "sc_search"
  /\ UNCHANGED << row_labels, run, inputs, disk, prev_completed, orch, sc_output_file,
                  total_attendees, page_num, pending, new_attendees_count,
                  attendees_found, interest_success, sc_raised, attendees,
                  pages_read, processed_urls, needs_recovery >>

\* set_search_filter returns True
ScSearch ==
  /\ pc = "sc_search"
  /\ filter_log' = Append(filter_log, "name")
  /\ page_num' = 1
  /\ pc' = "sc_extract"
  /\ UNCHANGED << row_labels, run, inputs, disk, prev_completed, orch, sc_output_file,
                  total_attendees, pending, new_attendees_count,
                  attendees_found, interest_success, activity_success,
                  sc_raised, attendees, pages_read, processed_urls,
                  needs_recovery >>

\* extract the attendees of the current page
ScExtract ==
  /\ pc = "sc_extract"
  /\ \E page \in Pages :
       /\ attendees' = page
       /\ pages_read' = Append(pages_read, page)
       /\ IF Len(page) = 0
          THEN /\ attendees_found' = total_attendees
               /\ pc' = "write_completed"
               /\ UNCHANGED << pending, new_attendees_count >>
          ELSE /\ pending' = Len(page)
               /\ new_attendees_count' = 0
               /\ pc' = "sc_write"
               /\ UNCHANGED attendees_found
  /\ UNCHANGED << row_labels, run, inputs, disk, prev_completed, orch, sc_output_file,
                  total_attendees, page_num, interest_success,
                  activity_success, sc_raised, filter_log, processed_urls,
                  needs_recovery >>

\* write one row of the page; after the last one add the page to the total
ScWriteRow ==
  /\ pc = "sc_write"
  /\ pending > 0
  /\ LET attendee == attendees[Len(attendees) - pending + 1] IN
       /\ files' = [files EXCEPT ![sc_output_file] =
                      write_row(@, attendee, processed_urls)]
       /\ processed_urls' = processed_urls \cup {attendee}
  /\ row_labels' = Append(row_labels,
       << display(interest, interest_options),
          display(company_activity, activity_options) >>)
  /\ pending' = pending - 1
  /\ IF pending = 1
     THEN /\ total_attendees' = add_page(total_attendees, new_attendees_count + 1)
          /\ new_attendees_count' = 0
          /\ pc' = "sc_next"
     ELSE /\ new_attendees_count' = new_attendees_count + 1
          /\ UNCHANGED << total_attendees, pc >>
  /\ UNCHANGED << run, inputs, master_exists, master_file, prev_completed,
                  terminate_signal, orch, sc_output_file, page_num,
                  attendees_found, interest_success, activity_success,
                  sc_raised, attendees, pages_read, filter_log,
                  needs_recovery >>

\* look for the Next link: click it, or return the total
ScNextPage ==
  /\ pc = "sc_next"
  /\ \/ /\ page_num < MaxPages
        /\ page_num' = page_num + 1
        /\ pc' = "sc_extract"
        /\ UNCHANGED attendees_found
     \/ /\ attendees_found' = total_attendees
        /\ pc' = "write_completed"
        /\ UNCHANGED page_num
  /\ UNCHANGED << row_labels, run, inputs, disk, prev_completed, orch, sc_output_file,
                  total_attendees, pending, new_attendees_count,
                  interest_success, activity_success, sc_raised, attendees,
                  pages_read, filter_log, processed_urls, needs_recovery >>

\* the places of the try block where a driver call is made
DriverCall ==
  \/ pc \in {"sc_nav", "sc_interest", "sc_activity", "sc_search",
             "sc_extract", "sc_next"}
  \/ pc = "sc_write" /\ (isdigit(interest) \/ isdigit(company_activity))

\* a driver call raised: except clause, return total_attendees
ScExcept ==
  /\ DriverCall
  /\ sc_raised' = TRUE
  /\ needs_recovery' = TRUE
  /\ attendees_found' = total_attendees
  /\ pc' = "write_completed"
  /\ UNCHANGED << row_labels, run, inputs, disk, prev_completed, orch, sc_output_file,
                  total_attendees, page_num, pending, new_attendees_count,
                  interest_success, activity_success, attendees, pages_read,
                  filter_log, processed_urls >>

\* ------------------------------------------------------------ specification
Next ==
  \/ ReadInputsFail \/ ReadInputs \/ CreateMasterLog \/ LoadSeen \/ LoadCompleted
  \/ CredentialsMissing \/ CredentialsPresent
  \/ LoginSuccess \/ LoginFailed \/ LoginRaises
  \/ SkipCompleted \/ StartCombination \/ PreScrapeWait \/ PreScrapeWaitRaises
  \/ ScAllocate \/ ScNavigate \/ ScInterest \/ ScActivity \/ ScSearch
  \/ ScExtract \/ ScWriteRow \/ ScNextPage \/ ScExcept
  \/ WriteCompleted \/ WriteError
  \/ Recover1 \/ Recover2 \/ Recover3Login \/ Recover3Raises
  \/ LoopDone \/ Finish \/ FinishRaises

\* one run of the program in an empty directory
Spec == Init /\ [][Next]_vars

\* lines of the input files of the repeated runs
RerunConfigs ==
  { << << <<"A">>, <<"A">> >>, << <<"x">> >>, << <<"p">> >> >>,
    << << <<"A">>, <<"B">> >>, << <<"x">> >>, << <<"p">> >> >> }

InitRerun ==
  /\ pc = "read_inputs"
  /\ master_exists = FALSE
  /\ master_file = << >>
  /\ InitMemory
  /\ << letters, interests, company_activities >> \in RerunConfigs
  /\ site_urls \in { {"u1"}, {"N/A"} }
  /\ DefaultSite

NextRerun == Next \/ StartRun

\* up to MaxRuns runs of the program, one after the other, in one directory
SpecRerun == InitRerun /\ [][NextRerun]_vars

\* repeated runs over one combination that is listed twice
SeenConfigs == { << << <<"A">>, <<"A">> >>, << <<"x">> >>, << <<"p">> >> >> }

InitSeen ==
  /\ pc = "read_inputs"
  /\ master_exists = FALSE
  /\ master_file = << >>
  /\ InitMemory
  /\ << letters, interests, company_activities >> \in SeenConfigs
  /\ site_urls \in { {"u1"}, {"N/A"} }
  /\ DefaultSite

SpecSeen == InitSeen /\ [][NextRerun]_vars

\* the process is interrupted (killed, or KeyboardInterrupt, which no except
\* clause catches) after scrape_combination created its output file and
\* before the Completed row is written: no row, no exit signal
Kill ==
  /\ pc \in {"sc_nav", "sc_interest", "sc_activity", "sc_search",
              "sc_extract", "sc_write", "sc_next", "write_completed"}
  /\ pc' = "done"
  /\ UNCHANGED << run, inputs, disk, prev_completed, orch, scvars,
                  processed_urls, needs_recovery >>

NextResume == NextRerun \/ Kill

\* repeated runs, some of them interrupted in the middle of a harvest
SpecResume == InitSeen /\ [][NextResume]_vars

\* ------------------------------------------ loading a given master log
MaxLedger == 3

LedgerCombos == { << <<"A">>, <<"x">>, <<"p">> >>, << <<"B">>, <<"x">>, <<"p">> >> }

LedgerRows ==
  { Row(c[1], c[2], c[3], NoFile, 0, s, 0, << 0, 0, 0 >>) :
      c \in LedgerCombos, s \in {"Started", "Completed", "Error"} }

Ledgers == UNION { [1..n -> LedgerRows] : n \in 0..MaxLedger }

\* the loop over the rows of the master log, applied to any master log
InitLedger ==
  /\ pc = "load_completed"
  /\ master_exists = TRUE
  /\ master_file \in Ledgers
  /\ InitMemory
  /\ site_urls = {"u1"}
  /\ DefaultSite

NextLedger == LoadCompleted

SpecLedger == InitLedger /\ [][NextLedger]_vars

TypeOK ==
  /\ run \in 1..MaxRuns
  /\ session \in {"None", "Fresh", "Authenticated"}
  /\ terminate_signal \in {"none", "complete", "error"}
  /\ \A n \in 1..Len(master_file) :
       master_file[n].status \in {"Started", "Completed", "Error"}

\* ------------------------------------- generate_output_filename on its own
\* highest counter among the files that exist before the first call
MaxCounter == 2

AllocPrefixes == { << >>, <<"A">> }
AllocInterests == { << >>, <<"x">>, <<"5">> }
AllocActivities == { << >>, <<"p">> }

\* memory of a process that has not started the combination loop
Idle ==
  /\ run = 1
  /\ master_exists = FALSE
  /\ master_file = << >>
  /\ prev_completed = { }
  /\ terminate_signal = "none"
  /\ completed_combinations = << >>
  /\ li = 1 /\ ii = 1 /\ ai = 1
  /\ combination_count = 0
  /\ output_file = NoFile
  /\ sc_output_file = NoFile
  /\ total_attendees = 0
  /\ page_num = 0
  /\ pending = 0
  /\ new_attendees_count = 0
  /\ attendees_found = 0
  /\ interest_success = TRUE
  /\ activity_success = TRUE
  /\ sc_raised = FALSE
  /\ err_len = 0
  /\ session = "None"
  /\ exhausted = FALSE
  /\ processed_urls = { }
  /\ attendees = << >>
  /\ pages_read = << >>
  /\ filter_log = << >>
  /\ row_labels = << >>
  /\ ladder = << >>
  /\ needs_recovery = FALSE
  /\ signals = << >>
  /\ abort = "none"
  /\ prev_started = { }
  /\ site_urls = {"u1"}

\* the arguments of the call and the files that exist: some of the numbered
\* files of the base of the call, and possibly a file of another base
InitAlloc ==
  /\ pc = "alloc_1"
  /\ Idle
  /\ DefaultSite
  /\ \E n \in AllocPrefixes, i \in AllocInterests, a \in AllocActivities :
       /\ letters = << n >>
       /\ interests = << i >>
       /\ company_activities = << a >>
       /\ \E existing \in SUBSET ({ << base_name(n, i, a), c >> : c \in 1..MaxCounter }
                                    \cup { << <<"o">>, 1 >> }) :
            files = [ f \in existing |-> << >> ]

\* what a call leaves alone
AllocFrame ==
  UNCHANGED << run, inputs, master_exists, master_file, terminate_signal,
               prev_completed, completed_combinations, li, ii, ai,
               combination_count, total_attendees, page_num, pending,
               new_attendees_count, attendees_found, interest_success,
               activity_success, sc_raised, attendees, pages_read, filter_log,
               row_labels, err_len, session, exhausted,
               ladder, signals, abort, prev_started, processed_urls,
               needs_recovery >>

\* the call of run_all_combinations
Allocate ==
  /\ pc = "alloc_1"
  /\ output_file' = generate_output_filename(letter, interest,
                                             company_activity, DOMAIN files)
  /\ pc' = "alloc_2"
  /\ UNCHANGED << files, sc_output_file >>
  /\ AllocFrame

\* the call of scrape_combination, before it creates the file
AllocateAgain ==
  /\ pc = "alloc_2"
  /\ sc_output_file' = generate_output_filename(letter, interest,
                                                company_activity, DOMAIN files)
  /\ pc' = "create"
  /\ UNCHANGED << files, output_file >>
  /\ AllocFrame

\* open(output_file, 'w') and the header row
CreateAllocated ==
  /\ pc = "create"
  /\ files' = (sc_output_file :> << >>) @@ files
  /\ pc' = "alloc_3"
  /\ UNCHANGED << output_file, sc_output_file >>
  /\ AllocFrame

\* a call with the same arguments after the file was created
AllocateAfterCreate ==
  /\ pc = "alloc_3"
  /\ sc_output_file' = generate_output_filename(letter, interest,
                                                company_activity, DOMAIN files)
  /\ pc' = "alloc_done"
  /\ UNCHANGED << files, output_file >>
  /\ AllocFrame

NextAlloc == Allocate \/ AllocateAgain \/ CreateAllocated \/ AllocateAfterCreate

SpecAlloc == InitAlloc /\ [][NextAlloc]_vars

\* --------------------------------------- harvests with labels and longer pages
\* a numeric interest with a letter listed twice, and a numeric activity with
\* two letters of the same slug
HarvestConfigs ==
  { << << <<"A">>, <<"A">> >>, << <<"5">> >>, << <<"p">> >> >>,
    << << <<"A">>, <<"a">> >>, << <<"x">> >>, << <<"2">> >> >> }

\* option.textContent.trim() of the option whose value is v
Label(v) == << "label of " >> \o v

\* the dropdowns a site can have for a list of values: any of them can be
\* the value of an option
OptionSets(values) ==
  { [ v \in D |-> Label(v) ] : D \in SUBSET { values[k] : k \in 1..Len(values) } }

\* the working directory is empty or holds an output file of an earlier run
InitHarvest ==
  /\ pc = "read_inputs"
  /\ Idle
  /\ \E cfg \in HarvestConfigs :
       /\ letters = cfg[1]
       /\ interests = cfg[2]
       /\ company_activities = cfg[3]
       /\ interest_options \in OptionSets(cfg[2])
       /\ activity_options \in OptionSets(cfg[3])
       /\ files \in { << >>,
                      (generate_output_filename(cfg[1][1], cfg[2][1], cfg[3][1], { })
                         :> << "u1" >>) }
  /\ page_size = MaxPerPage + 1

SpecHarvest == InitHarvest /\ [][Next]_vars

\* ----------------------------------- a result list that does not end
\* The page loop has no page limit: it goes on for as long as a page has
\* records and a link with the text Next. The actions below continue the loop
\* after page MaxPages; the rows and counts of these further pages are not
\* recorded, only the position of the loop is.

\* the page MaxPages, or a later one, has a Next link as well: it is clicked
ScNextPageBeyond ==
  /\ \/ pc = "sc_next" /\ page_num = MaxPages
     \/ pc = "sc_beyond_next"
  /\ pc' = "sc_beyond_extract"
  /\ UNCHANGED << run, inputs, disk, prev_completed, orch, scvars,
                  processed_urls, needs_recovery >>

\* a later page is extracted: empty, return; else its rows are written
ScExtractBeyond ==
  /\ pc = "sc_beyond_extract"
  /\ \/ /\ attendees_found' = total_attendees
        /\ pc' = "write_completed"
     \/ /\ pc' = "sc_beyond_next"
        /\ UNCHANGED attendees_found
  /\ UNCHANGED << run, inputs, disk, prev_completed, orch, sc_output_file,
                  total_attendees, page_num, pending, new_attendees_count,
                  interest_success, activity_success, sc_raised, attendees,
                  pages_read, filter_log, row_labels, processed_urls,
                  needs_recovery >>

\* a later page has no Next link, or a driver call raised: return
ScReturnBeyond ==
  /\ pc \in {"sc_beyond_extract", "sc_beyond_next"}
  /\ attendees_found' = total_attendees
  /\ pc' = "write_completed"
  /\ UNCHANGED << run, inputs, disk, prev_completed, orch, sc_output_file,
                  total_attendees, page_num, pending, new_attendees_count,
                  interest_success, activity_success, sc_raised, attendees,
                  pages_read, filter_log, row_labels, processed_urls,
                  needs_recovery >>

NextEndless == Next \/ ScNextPageBeyond \/ ScExtractBeyond \/ ScReturnBeyond

\* the process keeps running: whenever it can take a step, it takes one
SpecEndless == Init /\ [][NextEndless]_vars /\ WF_vars(NextEndless)

\* the same for a site whose result lists end within MaxPages pages
SpecFinite == Init /\ [][Next]_vars /\ WF_vars(Next)

\* ------------------------------------------- the slugs of the file name
\* longest argument string
MaxLen == 2

\* a letter, a space and a punctuation mark
SlugChars == { "A", " ", "&" }

SlugStrings == UNION { [1..n -> SlugChars] : n \in 0..MaxLen }

InitSlug ==
  /\ pc = "slug_call"
  /\ Idle
  /\ DefaultSite
  /\ files = << >>
  /\ \E n \in SlugStrings, i \in SlugStrings, a \in SlugStrings :
       /\ letters = << n >>
       /\ interests = << i >>
       /\ company_activities = << a >>

\* a call of generate_output_filename in an empty directory
Slugify ==
  /\ pc = "slug_call"
  /\ output_file' = generate_output_filename(letter, interest,
                                             company_activity, DOMAIN files)
  /\ pc' = "slug_done"
  /\ UNCHANGED << files, sc_output_file >>
  /\ AllocFrame

NextSlug == Slugify

SpecSlug == InitSlug /\ [][NextSlug]_vars

\* ------------------------------------------------------------- properties
Last(rows) == rows[Len(rows)]

IsPrefix(a, b) == Len(a) <= Len(b) /\ SubSeq(b, 1, Len(a)) = a

StartedRows == { n \in 1..Len(master_file) : master_file[n].status = "Started" }

\* a row was appended to the master log in this step
Appended == Len(master_file') = Len(master_file) + 1

InScrape == pc \in {"sc_alloc", "sc_nav", "sc_interest", "sc_activity",
                    "sc_search", "sc_extract", "sc_write", "sc_next"}

\* a filter has been set on the page, or a page is being harvested
FiltersApplied == pc \in {"sc_interest", "sc_activity", "sc_search",
                          "sc_extract", "sc_write", "sc_next"}

Harvesting == pc \in {"sc_extract", "sc_write", "sc_next"}

InRecovery == pc \in {"write_error", "recover1", "recover2", "recover3"}

\* the nested-list order of two loop positions
Precedes(x, y) ==
  \/ x[1] < y[1]
  \/ x[1] = y[1] /\ x[2] < y[2]
  \/ x[1] = y[1] /\ x[2] = y[2] /\ x[3] < y[3]

\* C1: a combination whose row of the earlier run is Completed is skipped by
\* the later run: it gets no Started row, and scrape_combination (filters,
\* harvest) is not run for it.
C1_ResumeSkipsCompleted ==
  /\ \A n \in StartedRows : Combo(master_file[n]) \notin prev_completed
  /\ InScrape => Current \notin prev_completed

\* the combinations of a master log whose last row is Completed
LatestCompleted(rows) ==
  { Combo(rows[n]) : n \in { m \in 1..Len(rows) :
      /\ rows[m].status = "Completed"
      /\ \A k \in (m + 1)..Len(rows) : Combo(rows[k]) # Combo(rows[m]) } }

C3_LedgerAppendOnly == [][IsPrefix(master_file, master_file')]_vars

\* C4: when a driver call raised in scrape_combination, the terminal row
\* written for the combination is an Error row, not a Completed row.
C4_ExceptionGivesErrorRow ==
  [][(sc_raised /\ Appended) => Last(master_file').status = "Error"]_vars

\* C5: once the last rung of the recovery ladder has failed, no combination
\* gets a Started row any more.
C5_ExhaustedRecoveryAborts ==
  [][(exhausted /\ Appended) => Last(master_file').status # "Started"]_vars

\* C6: filters are applied and pages are harvested only while the session is
\* Authenticated.
C6_FiltersOnlyWhenAuthenticated ==
  FiltersApplied => session = "Authenticated"

\* C7: when the interest setter or the company-activity setter returned
\* false, no page is harvested, scrape_combination returns 0 with no row
\* written, and the recovery ladder is not run.
C7_FilterFailureSkips ==
  (~ interest_success \/ ~ activity_success) =>
    /\ ~ Harvesting
    /\ ~ InRecovery
    /\ pc = "write_completed" =>
         attendees_found = 0 /\ files[sc_output_file] = << >>

\* the rows come in pairs: a Started row, then the terminal row of the same
\* combination
Paired ==
  \A n \in 1..Len(master_file) :
    IF n % 2 = 1
    THEN master_file[n].status = "Started"
    ELSE /\ master_file[n].status \in {"Completed", "Error"}
         /\ Combo(master_file[n]) = Combo(master_file[n - 1])
         /\ master_file[n].idx = master_file[n - 1].idx

OneStartedRowEach ==
  \A m, n \in StartedRows :
    Combo(master_file[m]) = Combo(master_file[n]) => m = n

\* C8: the rows of a run are paired and not interleaved, and every attempted
\* combination has exactly one Started row and one terminal row.
C8_LedgerPairedOncePerCombination == Paired /\ OneStartedRowEach

\* C9: within one run every combination is attempted at most once (repeated
\* input lines and an Error at the first attempt included), and a combination
\* of the resume set is not attempted.
C9_AttemptedAtMostOnce ==
  \A m, n \in StartedRows :
    /\ m < n => Combo(master_file[m]) # Combo(master_file[n])
    /\ InList(Combo(master_file[n]), completed_combinations)
         => \E k \in (n + 1)..Len(master_file) :
              /\ master_file[k].status = "Completed"
              /\ Combo(master_file[k]) = Combo(master_file[n])

\* C10: the Started rows are in the nested-list order of the cross-product
\* (letters outermost, interests, activities innermost): each is the
\* combination at its loop position, and a later row has a later position.
C10_StartedInNestedOrder ==
  \A m, n \in StartedRows :
    /\ Combo(master_file[n]) =
         << letters[master_file[n].idx[1]], interests[master_file[n].idx[2]],
            company_activities[master_file[n].idx[3]] >>
    /\ m < n => Precedes(master_file[m].idx, master_file[n].idx)

\* a finished run whose master log has a Started row of the second activity
\* under the first interest before one of the first activity under the second
C10_Witness ==
  /\ pc = "done"
  /\ \E m, n \in StartedRows :
       /\ master_file[m].idx[2] < master_file[n].idx[2]
       /\ master_file[m].idx[3] > master_file[n].idx[3]

RECURSIVE Flatten(_)
Flatten(pages) ==
  IF pages = << >> THEN << >> ELSE Head(pages) \o Flatten(Tail(pages))

Front(seq) == SubSeq(seq, 1, Len(seq) - 1)

\* the records the write loop has gone through in this call
Processed ==
  IF pages_read = << >> THEN << >>
  ELSE Flatten(Front(pages_read))
         \o SubSeq(attendees, 1, Len(attendees) - pending)

RECURSIVE SumLen(_)
SumLen(pages) ==
  IF pages = << >> THEN 0 ELSE Len(Head(pages)) + SumLen(Tail(pages))

\* the page loop returned by one of its two return statements
ReturnedNormally == pc = "write_completed" /\ ~sc_raised /\ pages_read # << >>

\* no page was read after an empty page, and pages are read one at a time
StopsAtFirstEmptyPage ==
  /\ \A k \in 1..(Len(pages_read) - 1) : pages_read[k] # << >>
  /\ Harvesting => Len(pages_read) \in {page_num - 1, page_num}
  /\ pc \in {"sc_write", "sc_next"} =>
       Len(pages_read) = page_num /\ Last(pages_read) # << >>

\* C12: a harvest that is not cut short by an exception reads no page after
\* the first empty page and returns at the first page without a next link;
\* the total it returns is the sum of the record counts of the pages read,
\* that many rows are in the output file, and the one row then appended to
\* the master log is Completed and carries that total.
C12_HarvestTotalIsSumOfPages ==
  [][ /\ StopsAtFirstEmptyPage'
      /\ (pc = "sc_next" /\ pc' = "write_completed" /\ ~sc_raised') =>
           (Last(pages_read) # << >> /\ Len(pages_read) = page_num)
      /\ ReturnedNormally =>
           /\ attendees_found = SumLen(pages_read)
           /\ Len(files[sc_output_file]) = SumLen(pages_read)
           /\ Appended
           /\ Last(master_file').status = "Completed"
           /\ Last(master_file').found = SumLen(pages_read) ]_vars

\* pages of one and zero records: total 1, one row
C12_Witness ==
  /\ ReturnedNormally
  /\ Len(pages_read) = 2
  /\ pages_read[1] # << >>
  /\ pages_read[2] = << >>
  /\ attendees_found = 1
  /\ Len(files[sc_output_file]) = 1

\* C13: the rungs of the recovery ladder run in the order 1, 2, 3, each
\* rung only after every earlier rung failed, and after a rung succeeded no
\* further rung runs (the loop goes on).
C13_LadderEscalatesInOrder ==
  /\ \A k \in 1..Len(ladder) :
       /\ ladder[k].rung = k
       /\ k < Len(ladder) => ~ladder[k].ok
  /\ pc = "recover1" => ladder = << >>
  /\ pc = "recover2" => Len(ladder) = 1 /\ ~ladder[1].ok
  /\ pc = "recover3" => Len(ladder) = 2 /\ ~ladder[2].ok
  /\ (ladder # << >> /\ Last(ladder).ok) => pc = "loop"

\* rungs 1 and 2 failed and rung 3 re-authenticated
C13_Witness ==
  /\ Len(ladder) = 3
  /\ ladder[3].ok
  /\ pc = "loop"

\* C14: after a driver call inside scrape_combination raised, no further
\* combination is started before the recovery ladder has run, and after a
\* rung of the ladder succeeded the loop goes on with the next combination
\* (or ends when there is none).
C14_HarvestFailureTriggersRecovery ==
  [][ /\ (needs_recovery /\ Appended /\ Last(master_file').status = "Started")
           => ladder # << >>
      /\ (pc = "loop" /\ ladder # << >> /\ Last(ladder).ok)
           => pc' \in {"loop", "wait", "finish"} ]_vars

\* every combination of the cross-product was skipped as completed or started
LoopCoveredCrossProduct ==
  \A l \in 1..Len(letters), i \in 1..Len(interests),
     a \in 1..Len(company_activities) :
       \/ InList(<< letters[l], interests[i], company_activities[a] >>,
                 completed_combinations)
       \/ \E n \in StartedRows : master_file[n].idx = << l, i, a >>

\* C15: a run that has ended has written exactly one exit signal (and none
\* before it ends); the signal is "complete" only if the loop covered the
\* whole cross-product with no fatal abort, and it is "error" after a startup
\* failure and after an exhausted recovery.
C15_ExactlyOneExitSignal ==
  /\ pc # "done" => signals = << >>
  /\ pc = "done" =>
       /\ Len(signals) = 1
       /\ signals[1] = "complete" =>
            abort = "none" /\ ~exhausted /\ LoopCoveredCrossProduct
       /\ (abort # "none" \/ exhausted) => signals[1] = "error"

\* C16: once a start-up step has failed (an input file unreadable, a
\* credential missing, the first login returning False or raising) the run
\* is over with the error signal written, the master log has no Started row
\* and no output file has been created.
C16_StartupFailureIsFatal ==
  abort # "none" =>
    /\ pc = "done"
    /\ signals = << "error" >>
    /\ terminate_signal = "error"
    /\ StartedRows = {}
    /\ DOMAIN files = {}
    /\ output_file = NoFile

\* the first login returned False after the inputs and credentials were read
C16_Witness ==
  /\ abort = "login"
  /\ pc = "done"
  /\ master_exists
  /\ signals = << "error" >>

Logged(what) == \E k \in 1..Len(filter_log) : filter_log[k] = what

\* C17: in every call of scrape_combination the name term is submitted at
\* most once and nothing is set on the page after it; when a page is
\* extracted the submission of the name term is the latest filter action and
\* the interest and activity setters (for non-empty values) ran before it.
C17_NameFilterLast ==
  /\ \A k \in 1..Len(filter_log) :
       filter_log[k] = "name" => k = Len(filter_log)
  /\ Harvesting =>
       /\ filter_log # << >>
       /\ Last(filter_log) = "name"
       /\ Len(interest) > 0 => Logged("interest")
       /\ Len(company_activity) > 0 => Logged("activity")

\* the first page is about to be extracted after all three filters were set
C17_Witness ==
  /\ pc = "sc_extract"
  /\ page_num = 1
  /\ filter_log = << "event", "interest", "activity", "name" >>

\* f is the name with the smallest counter >= 1 that is not in existing
SmallestUnused(f, existing) ==
  /\ f[1] = base_name(letter, interest, company_activity)
  /\ f[2] >= 1
  /\ f \notin existing
  /\ \A c \in 1..(f[2] - 1) : << f[1], c >> \in existing

\* C18: for every (prefix, interest, activity) and every set of existing
\* files a call of generate_output_filename returns the name of the base with
\* the smallest counter >= 1 that no existing file has, and creates no file;
\* a second call with nothing changed returns the same name, and a call made
\* after that name was created returns a different one.
C18_SmallestUnusedCounter ==
  [][ /\ pc = "alloc_1" =>
           SmallestUnused(output_file', DOMAIN files) /\ files' = files
      /\ pc = "alloc_2" =>
           sc_output_file' = output_file /\ files' = files
      /\ pc = "alloc_3" =>
           /\ sc_output_file \in DOMAIN files
           /\ sc_output_file' # sc_output_file
           /\ SmallestUnused(sc_output_file', DOMAIN files)
           /\ files' = files ]_vars

\* counter 2 was the only one taken: the calls return 1, 1 and, once file 1
\* exists, 3
C18_Witness ==
  /\ pc = "alloc_done"
  /\ output_file[2] = 1
  /\ sc_output_file[2] = 3
  /\ output_file[1] = sc_output_file[1]
  /\ Len(output_file[1]) = 3

\* C19: a combination that the earlier run started, whose output file exists
\* and which the earlier run did not complete, gets in the later run the
\* output file name that the earlier run recorded in its Started row.
C19_FilenameStableAcrossResume ==
  \A n \in StartedRows : \A p \in prev_started :
    ( /\ p[1] = Combo(master_file[n])
      /\ p[2] \in DOMAIN files
      /\ p[1] \notin prev_completed )
    => master_file[n].file = p[2]

\* C20: each of the three slugs that generate_output_filename builds is
\* unchanged by slugifying it again and has no two consecutive hyphens, and
\* the joined base of the returned name has no two consecutive hyphens.
C20_SlugsIdempotentNoDoubleHyphen ==
  pc = "slug_done" =>
    /\ clean_name(clean_name(letter)) = clean_name(letter)
    /\ interest_str(interest_str(interest)) = interest_str(interest)
    /\ activity_str(activity_str(company_activity)) = activity_str(company_activity)
    /\ ~has_double_hyphen(clean_name(letter))
    /\ ~has_double_hyphen(interest_str(interest))
    /\ ~has_double_hyphen(activity_str(company_activity))
    /\ ~has_double_hyphen(output_file[1])

\* what the claim says a column holds for a value and a dropdown
ResolvedLabel(column, value, options) ==
  /\ (isdigit(value) /\ value \in DOMAIN options) => column = options[value]
  /\ ~isdigit(value) => column = value
  /\ (isdigit(value) /\ value \notin DOMAIN options) => column = value

\* C21: every row written for a combination has in its Interest (Company
\* Activity) column the label of the dropdown option whose value is the
\* combination's interest (activity) when that value is numeric and such an
\* option exists, and the value itself when it is not numeric or no such
\* option exists.
C21_LabelsResolvedAtWrite ==
  /\ sc_output_file # NoFile =>
       Len(row_labels) = Len(files[sc_output_file])
  /\ \A k \in 1..Len(row_labels) :
       /\ ResolvedLabel(row_labels[k][1], interest, interest_options)
       /\ ResolvedLabel(row_labels[k][2], company_activity, activity_options)

\* two rows written for interest "5" with its label; the activity "p" is
\* written as it is although the dropdown has an option with that value
C21_Witness ==
  /\ Len(row_labels) = 2
  /\ interest = <<"5">>
  /\ row_labels[2][1] = Label(<<"5">>)
  /\ company_activity \in DOMAIN activity_options
  /\ row_labels[2][2] = <<"p">>

\* the Started row of the attempt in progress
CurrentStarted ==
  master_file[CHOOSE n \in StartedRows :
                \A m \in StartedRows : m <= n]

C24_FoundEqualsRowsWritten ==
  [][ pc = "write_completed" =>
        /\ Last(master_file').status = "Completed"
        /\ Last(master_file').found = Len(files[sc_output_file]) ]_vars

CompletedRows ==
  { n \in 1..Len(master_file) : master_file[n].status = "Completed" }

\* C25: no output file is ever removed or shortened; every call of
\* scrape_combination creates a file that did not exist, only that file
\* changes during the call, and only by rows appended to it; so no two
\* combinations that were harvested in a run have the same output file, also
\* when their bases are equal.
C25_OutputFilesNotShared ==
  [][ /\ DOMAIN files \subseteq DOMAIN files'
      /\ (sc_output_file' # sc_output_file /\ sc_output_file' # NoFile) =>
           /\ sc_output_file' \notin DOMAIN files
           /\ files'[sc_output_file'] = << >>
      /\ \A f \in DOMAIN files :
           files'[f] # files[f] =>
             /\ f = sc_output_file
             /\ IsPrefix(files[f], files'[f])
      /\ \A m, n \in CompletedRows' :
           m # n => master_file'[m].file # master_file'[n].file ]_vars

\* the directory held file 1 of the base; (A,x,2) wrote file 2 and (a,x,2),
\* whose base is the same, writes file 3
C25_Witness ==
  /\ pc = "sc_next"
  /\ letter = <<"a">>
  /\ sc_output_file[2] = 3
  /\ \A c \in 1..3 :
       /\ << sc_output_file[1], c >> \in DOMAIN files
       /\ files[<< sc_output_file[1], c >>] # << >>

InPageLoop ==
  pc \in {"sc_extract", "sc_write", "sc_next", "sc_beyond_extract",
          "sc_beyond_next"}

\* C22: whenever the page loop of a combination is running it eventually
\* returns, and the run eventually writes its exit signal and ends.
C22_HarvestIsFinite ==
  /\ [](InPageLoop => <>(pc = "write_completed"))
  /\ <>(pc = "done")

====
